---- MODULE Spec2Model ----
(***************************************************************************)
(* TaxPay backend: the credential / session subsystem (src/main.py), the   *)
(* document-store adapter (src/database.py) and the resource endpoints     *)
(* built on them.  Every request is one task; a task is suspended at each  *)
(* await (a store call), where the tasks of other requests may run.        *)
(***************************************************************************)
EXTENDS Integers, Sequences, FiniteSets, TLC

VARIABLES
    db,        \* collection name -> sequence of documents, in natural order
    now,       \* the wall clock, in whole seconds (time.time, datetime.utcnow)
    env,       \* the process environment (gateway keys, installed packages)
    req,       \* task -> the request it runs (locals, position, response; at:
               \* when its credential was checked, snap: how many documents
               \* its query matched)
    held,      \* email -> the access token the client of that user keeps
    orders,    \* the orders the external gateway was asked to create
    stats,     \* history: registrations that succeeded (count per email, the
               \* credentials), demo payments made, saves of an allocation
               \* that succeeded (count per email)
    probe      \* the last direct call of the token service (SpecToken)

vars == <<db, now, env, req, held, orders, stats, probe>>

----------------------------------------------------------------------------
(* Bounds of the model. *)

MaxTasks == 2          \* concurrent requests
MaxUsers == 2          \* user documents
MaxAllocations == 2    \* allocation documents (SpecAlloc), pings (SpecStore)
MaxWrites == 1         \* allocation documents, receipt documents (Spec)
MaxDays == 1           \* the clock is observed around 0 .. MaxDays token lifetimes
MaxOrders == 1         \* gateway calls
MaxBulk == 101         \* receipt documents (SpecPay)

(* Program constants. *)

DefaultExpiresMinutes == 1440   \* create_token: expires_minutes = 60 * 24
SecondsPerMinute == 60          \* timedelta(minutes = ...)
ReceiptsLimit == 100            \* list_receipts: limit = 100
BcryptMaxBytes == 72            \* bcrypt reads the first 72 bytes of a password
JWT_SECRET == "dev-secret-change"
JWT_ALG == "HS256"

Procs == 1 .. MaxTasks

None == [none |-> TRUE]

Min(a, b) == IF a <= b THEN a ELSE b

RECURSIVE Repeat(_, _)
Repeat(x, n) == IF n = 0 THEN <<>> ELSE <<x>> \o Repeat(x, n - 1)

(* The instants at which the model looks at the clock: a second before, at  *)
(* and a second after each multiple of the default token lifetime.         *)
Instants ==
    { t \in { d * DefaultExpiresMinutes * SecondsPerMinute + s :
                d \in 0 .. MaxDays, s \in {0 - 1, 0, 1} } : t >= 0 }

----------------------------------------------------------------------------
(* Request inputs. *)

Emails == {"a@x.in", "b@x.in"}

\* Passwords are byte strings.  LongX and LongY share their first 72 bytes.
Short1 == <<"p">>
Short2 == <<"q">>
LongX == Repeat("a", BcryptMaxBytes) \o <<"x">>
LongY == Repeat("a", BcryptMaxBytes) \o <<"y">>

NameOf(e) == IF e = "a@x.in" THEN "Asha" ELSE "Bala"
PanOf(e) == IF e = "a@x.in" THEN "ABCDE1234F" ELSE "BCDEF2345G"

EmptyMap == [s \in {} |-> 0]
HealthOnly == [health |-> 100]
Mixed == [education |-> 60, health |-> 40]

----------------------------------------------------------------------------
(* Document store adapter (src/database.py).  A collection is kept as the  *)
(* sequence of its documents in natural order, the order an unsorted find  *)
(* scans them in; an insert appends.                                       *)

Collections == {"user", "allocation", "receipt", "ping"}

\* insert_one gives the document an ObjectId new to its collection.
NewObjectId(d, collection_name) == Len(d[collection_name]) + 1

\* {**data, "created_at": now, "updated_at": now}, then insert_one
NewDocument(d, collection_name, data, t) ==
    ([created_at |-> t, updated_at |-> t] @@ data)
        @@ [_id |-> NewObjectId(d, collection_name)]

\* Mutant: the new document takes the place of the collection's last one.
create_document_Replace(d, collection_name, data, t) ==
    IF Len(d[collection_name]) = 0
        THEN [d EXCEPT ![collection_name] =
                 Append(@, NewDocument(d, collection_name, data, t))]
        ELSE [d EXCEPT ![collection_name] =
                 [@ EXCEPT ![Len(@)] = NewDocument(d, collection_name, data, t)]]

create_document(d, collection_name, data, t) ==
    [d EXCEPT ![collection_name] = Append(@, NewDocument(d, collection_name, data, t))]

\* str(res.inserted_id)
inserted_id(d, collection_name) == ToString(NewObjectId(d, collection_name))

Matches(doc, filter_dict) ==
    \A k \in DOMAIN filter_dict : k \in DOMAIN doc /\ doc[k] = filter_dict[k]

Find(d, collection_name, filter_dict) ==
    SelectSeq(d[collection_name], LAMBDA doc : Matches(doc, filter_dict))

get_documents(d, collection_name, filter_dict, limit) ==
    LET found == Find(d, collection_name, filter_dict)
    IN  SubSeq(found, 1, Min(limit, Len(found)))

----------------------------------------------------------------------------
(* Credential manager: CryptContext(schemes = ["bcrypt"]).                 *)

Salts == {1, 2}

\* bcrypt hashes the first BcryptMaxBytes bytes of the password under the salt.
Bcrypt(password, salt) ==
    [scheme |-> "bcrypt", salt |-> salt,
     digest |-> SubSeq(password, 1, Min(Len(password), BcryptMaxBytes))]

\* The hashes hash_password may return: one per fresh salt.
hash_password(password) == { Bcrypt(password, s) : s \in Salts }

\* "true", "false", or "raise": the context raises UnknownHashError for a
\* string of no known scheme (the empty string too), and the scheme raises
\* ValueError for a string that carries its prefix but does not parse.
verify_password(password, hashed) ==
    IF hashed.scheme # "bcrypt" \/ hashed.salt \notin Salts THEN "raise"
    ELSE IF Bcrypt(password, hashed.salt) = hashed THEN "true"
    ELSE "false"

----------------------------------------------------------------------------
(* Token service: HS256 JSON web tokens.  A token is its header's alg, its *)
(* payload, the MAC of both, and the two unused low bits of the last       *)
(* base64url character of the signature segment (43 characters carry       *)
(* 258 bits, the MAC has 256).                                             *)

Hmac(key, alg, payload) == [key |-> key, alg |-> alg, payload |-> payload]

JwtEncode(payload, key, alg) ==
    [wellformed |-> TRUE, alg |-> alg, payload |-> payload,
     mac |-> Hmac(key, alg, payload), pad |-> 0]

\* Mutant: the lifetime is taken in seconds.
create_token_Seconds(data, expires_minutes, t) ==
    JwtEncode([k \in DOMAIN data \cup {"exp"} |->
                  IF k = "exp" THEN t + expires_minutes ELSE data[k]],
              JWT_SECRET, JWT_ALG)

\* to_encode = data.copy(); to_encode.update({"exp": utcnow + minutes})
create_token(data, expires_minutes, t) ==
    LET expire == t + expires_minutes * SecondsPerMinute
        to_encode == [k \in DOMAIN data \cup {"exp"} |->
                         IF k = "exp" THEN expire ELSE data[k]]
    IN  JwtEncode(to_encode, JWT_SECRET, JWT_ALG)

\* Mutant: the expiry claim is never tested.
Expired_Never(exp, t, inclusive) == FALSE

\* Mutant: the token is refused from a second before its expiry.
Expired_Early(exp, t, inclusive) == exp - 1 <= t

\* The library's expiry test.  Releases differ on the expiry instant itself:
\* exp <= now (expired at the instant) or exp < now (still valid at it).
Expired(exp, t, inclusive) == IF inclusive THEN exp <= t ELSE exp < t

\* Mutant: the signature is not verified.
JwtDecode_Unverified(token, key, algorithms, t, inclusive) ==
    IF ~token.wellformed THEN [ok |-> FALSE, error |-> "DecodeError"]
    ELSE IF "exp" \in DOMAIN token.payload
            /\ Expired(token.payload["exp"], t, inclusive)
        THEN [ok |-> FALSE, error |-> "ExpiredSignatureError"]
    ELSE [ok |-> TRUE, payload |-> token.payload]

\* jwt.decode(token, key, algorithms): segments, algorithm, signature, claims.
\* Decoding the signature segment drops the unused bits (pad).
JwtDecode(token, key, algorithms, t, inclusive) ==
    IF ~token.wellformed THEN [ok |-> FALSE, error |-> "DecodeError"]
    ELSE IF token.alg \notin algorithms
        THEN [ok |-> FALSE, error |-> "InvalidAlgorithmError"]
    ELSE IF token.mac # Hmac(key, token.alg, token.payload)
        THEN [ok |-> FALSE, error |-> "InvalidSignatureError"]
    ELSE IF "exp" \in DOMAIN token.payload
            /\ Expired(token.payload["exp"], t, inclusive)
        THEN [ok |-> FALSE, error |-> "ExpiredSignatureError"]
    ELSE [ok |-> TRUE, payload |-> token.payload]

HTTPException(status_code, detail) ==
    [status |-> status_code, body |-> [detail |-> detail]]

Response(body) == [status |-> 200, body |-> body]

\* An exception no handler catches: the framework answers 500.
ServerError == [status |-> 500, body |-> [detail |-> "Internal Server Error"]]

decode_token(token, t, inclusive) ==
    LET r == JwtDecode(token, JWT_SECRET, {JWT_ALG}, t, inclusive)
    IN  IF r.ok THEN [ok |-> TRUE, payload |-> r.payload]
        ELSE IF r.error = "ExpiredSignatureError"
            THEN [ok |-> FALSE, raised |-> HTTPException(401, "Token expired")]
        ELSE [ok |-> FALSE, raised |-> HTTPException(401, "Invalid token")]

----------------------------------------------------------------------------
(* Authorization headers.  A header string is its words (split on white    *)
(* space) and whether white space leads or trails it.                      *)

Lit(text) == [lit |-> text, tok |-> None]
Tok(token) == [lit |-> "", tok |-> token]

HeaderOf(words, trail) == [lead |-> FALSE, words |-> words, trail |-> trail]

Lower(text) ==
    CASE text = "Bearer" -> "bearer"
      [] text = "BEARER" -> "bearer"
      [] OTHER -> text

\* not authorization
Falsy(authorization) ==
    \/ authorization = None
    \/ /\ authorization.words = <<>>
       /\ ~authorization.lead
       /\ ~authorization.trail

\* authorization.lower().startswith("bearer ")
StartsWithBearer(authorization) ==
    /\ ~authorization.lead
    /\ Len(authorization.words) >= 1
    /\ Lower(authorization.words[1].lit) = "bearer"
    /\ (Len(authorization.words) >= 2 \/ authorization.trail)

\* The user model get_current_user returns.
UserOf(u) ==
    [id |-> ToString(u["_id"]), email |-> u["email"], name |-> u["name"],
     pan |-> u["pan"]]

\* get_current_user, up to its await: the exception raised, or the verified email.
Credential(authorization, t, inclusive) ==
    IF Falsy(authorization) \/ ~StartsWithBearer(authorization)
        THEN [ok |-> FALSE, raised |-> HTTPException(401, "Missing token")]
    ELSE IF Len(authorization.words) < 2      \* split()[1]: IndexError
        THEN [ok |-> FALSE, raised |-> ServerError]
    ELSE IF authorization.words[2].tok = None \* a word that is no token
        THEN [ok |-> FALSE, raised |-> HTTPException(401, "Invalid token")]
    ELSE LET d == decode_token(authorization.words[2].tok, t, inclusive)
         IN  IF ~d.ok THEN d
             ELSE IF "sub" \notin DOMAIN d.payload \/ d.payload["sub"] = ""
                 THEN [ok |-> FALSE,
                       raised |-> HTTPException(401, "Invalid token payload")]
             ELSE [ok |-> TRUE, email |-> d.payload["sub"]]

\* get_current_user: the exception raised, or the user resolved.
get_current_user(d, authorization, t, inclusive) ==
    LET c == Credential(authorization, t, inclusive)
    IN  IF ~c.ok THEN c
        ELSE LET users == get_documents(d, "user", [email |-> c.email], 1)
             IN  IF Len(users) = 0
                     THEN [ok |-> FALSE,
                           raised |-> HTTPException(401, "User not found")]
                     ELSE [ok |-> TRUE, user |-> UserOf(users[1])]

----------------------------------------------------------------------------
(* The process environment: the gateway keys (os.environ), whether the     *)
(* gateway package can be imported, and which expiry test the installed    *)
(* token library applies.                                                  *)

\* not os.environ.get(name): the variable is unset or empty
EnvFalsy(e, name) == name \notin DOMAIN e.vars \/ e.vars[name] = ""

GatewayVars ==
    { [n \in {} |-> ""],
      [RAZORPAY_KEY_ID |-> "rzp_id"],
      [RAZORPAY_KEY_SECRET |-> "rzp_secret"],
      [RAZORPAY_KEY_ID |-> "rzp_id", RAZORPAY_KEY_SECRET |-> ""],
      [RAZORPAY_KEY_ID |-> "rzp_id", RAZORPAY_KEY_SECRET |-> "rzp_secret"] }

Environments ==
    [vars : GatewayVars, razorpay_installed : BOOLEAN, exp_inclusive : BOOLEAN]

\* not key_id or not key_secret
\* Mutant: "and" for "or".
KeysMissing_Both(e) ==
    EnvFalsy(e, "RAZORPAY_KEY_ID") /\ EnvFalsy(e, "RAZORPAY_KEY_SECRET")

KeysMissing(e) ==
    EnvFalsy(e, "RAZORPAY_KEY_ID") \/ EnvFalsy(e, "RAZORPAY_KEY_SECRET")

----------------------------------------------------------------------------
(* Tasks. *)

Idle ==
    [op |-> "idle", pc |-> "idle", hdr |-> None, body |-> None, user |-> None,
     resp |-> None, at |-> 0, snap |-> 0]

Resting(p) == req[p].pc \in {"idle", "done"}

InFlight(op) == Cardinality({ q \in Procs : req[q].op = op /\ ~Resting(q) })

Protected ==
    {"me", "get_allocation", "save_allocation", "list_receipts", "pay_demo",
     "create_razorpay_order"}

FirstPc(op) ==
    CASE op = "register" -> "register_check"
      [] op = "login" -> "login_query"
      [] op = "test" -> "test_insert"
      [] OTHER -> "auth"

\* The request reaches the service and its task starts.  With sequential set, no
\* other request is being served.
Submit(p, op, hdr, body, sequential) ==
    /\ Resting(p)
    /\ sequential => \A q \in Procs : Resting(q)
    /\ req' = [req EXCEPT ![p] =
                  [op |-> op, pc |-> FirstPc(op), hdr |-> hdr, body |-> body,
                   user |-> None, resp |-> None, at |-> 0, snap |-> 0]]
    /\ UNCHANGED <<db, now, env, held, orders, stats, probe>>

Finish(p, resp) ==
    req' = [req EXCEPT ![p].pc = "done", ![p].resp = resp]

----------------------------------------------------------------------------
(* GET /test *)

TestInsert(p) ==
    /\ req[p].pc = "test_insert"
    /\ db' = create_document(db, "ping", [ok |-> TRUE, ts |-> now], now)
    /\ req' = [req EXCEPT ![p].pc = "test_query"]
    /\ UNCHANGED <<now, env, held, orders, stats, probe>>

TestQuery(p) ==
    /\ req[p].pc = "test_query"
    /\ LET docs == get_documents(db, "ping", EmptyMap, 1)
       IN  Finish(p, Response([ok |-> TRUE, count |-> Len(docs)]))
    /\ UNCHANGED <<db, now, env, held, orders, stats, probe>>

----------------------------------------------------------------------------
(* POST /auth/register *)

\* Mutant: the existence check is skipped.
RegisterCheck_Unchecked(p) ==
    /\ req[p].pc = "register_check"
    /\ req' = [req EXCEPT ![p].pc = "register_insert"]
    /\ UNCHANGED <<db, now, env, held, orders, stats, probe>>

RegisterCheck(p) ==
    /\ req[p].pc = "register_check"
    /\ LET existing ==
               get_documents(db, "user", [email |-> req[p].body.email], 1)
       IN  IF Len(existing) > 0
               THEN Finish(p, HTTPException(400, "Email already registered"))
               ELSE req' = [req EXCEPT ![p].pc = "register_insert"]
    /\ UNCHANGED <<db, now, env, held, orders, stats, probe>>

\* Mutant: the insert is conditional on the email still being unused.
RegisterInsert_IfAbsent(p) ==
    /\ req[p].pc = "register_insert"
    /\ IF Len(get_documents(db, "user", [email |-> req[p].body.email], 1)) > 0
           THEN /\ Finish(p, HTTPException(400, "Email already registered"))
                /\ UNCHANGED <<db, stats>>
           ELSE /\ \E h \in hash_password(req[p].body.password) :
                      db' = create_document(db, "user",
                               [email |-> req[p].body.email, password_hash |-> h,
                                name |-> req[p].body.name, pan |-> req[p].body.pan],
                               now)
                /\ Finish(p, Response([message |-> "Registered successfully"]))
                /\ stats' = [stats EXCEPT
                                !.registered[req[p].body.email] = @ + 1,
                                !.credentials = @ \cup {<<req[p].body.email,
                                                           req[p].body.password>>}]
    /\ UNCHANGED <<now, env, held, orders, probe>>

RegisterInsert(p) ==
    /\ req[p].pc = "register_insert"
    /\ \E h \in hash_password(req[p].body.password) :
          LET user_doc == [email |-> req[p].body.email, password_hash |-> h,
                           name |-> req[p].body.name, pan |-> req[p].body.pan]
          IN  db' = create_document(db, "user", user_doc, now)
    /\ Finish(p, Response([message |-> "Registered successfully"]))
    /\ stats' = [stats EXCEPT
                    !.registered[req[p].body.email] = @ + 1,
                    !.credentials = @ \cup {<<req[p].body.email,
                                               req[p].body.password>>}]
    /\ UNCHANGED <<now, env, held, orders, probe>>

(* POST /auth/login *)

EmptyHash == [scheme |-> "", salt |-> 0, digest |-> <<>>]

\* A string with the bcrypt prefix that is no bcrypt hash, e.g. "$2b$12$short".
MalformedHash == [scheme |-> "bcrypt", salt |-> 0, digest |-> <<>>]

\* user.get("password_hash", "")
PasswordHashOf(user) ==
    IF "password_hash" \in DOMAIN user THEN user["password_hash"] ELSE EmptyHash

TokenResponse(token) == [access_token |-> token, token_type |-> "bearer"]

\* What login answers for the users its query found.
LoginResponse(users, body, t) ==
    IF Len(users) = 0 THEN HTTPException(401, "Invalid credentials")
    ELSE LET v == verify_password(body.password, PasswordHashOf(users[1]))
             token == create_token([sub |-> users[1]["email"]],
                                   DefaultExpiresMinutes, t)
         IN  IF v = "raise" THEN ServerError
             ELSE IF v = "false"
                 THEN HTTPException(401, "Invalid credentials")
             ELSE Response(TokenResponse(token))

\* Mutant: an unknown email is answered otherwise than a wrong password.
Login_UnknownEmail(p) ==
    /\ req[p].pc = "login_query"
    /\ LET users == get_documents(db, "user", [email |-> req[p].body.email], 1)
           resp == IF Len(users) = 0 THEN HTTPException(404, "User not found")
                   ELSE LoginResponse(users, req[p].body, now)
       IN  /\ req' = [req EXCEPT ![p].pc = "done", ![p].resp = resp,
                                  ![p].snap = Len(users)]
           /\ held' = IF resp.status = 200
                          THEN [held EXCEPT ![req[p].body.email] =
                                   resp.body.access_token]
                          ELSE held
    /\ UNCHANGED <<db, now, env, orders, stats, probe>>

Login(p) ==
    /\ req[p].pc = "login_query"
    /\ LET users == get_documents(db, "user", [email |-> req[p].body.email], 1)
           resp == LoginResponse(users, req[p].body, now)
       IN  /\ req' = [req EXCEPT ![p].pc = "done", ![p].resp = resp,
                                  ![p].snap = Len(users)]
           /\ held' = IF resp.status = 200
                          THEN [held EXCEPT ![req[p].body.email] =
                                   resp.body.access_token]
                          ELSE held
    /\ UNCHANGED <<db, now, env, orders, stats, probe>>

(* Depends(get_current_user), for every protected operation *)

Authenticate(p) ==
    /\ req[p].pc = "auth"
    /\ LET r == get_current_user(db, req[p].hdr, now, env.exp_inclusive)
       IN  IF r.ok
               THEN req' = [req EXCEPT ![p].pc = req[p].op, ![p].user = r.user,
                                       ![p].at = now]
               ELSE req' = [req EXCEPT ![p].pc = "done", ![p].resp = r.raised,
                                       ![p].at = now]
    /\ UNCHANGED <<db, now, env, held, orders, stats, probe>>

(* GET /me *)

Me(p) ==
    /\ req[p].pc = "me"
    /\ Finish(p, Response(req[p].user))
    /\ UNCHANGED <<db, now, env, held, orders, stats, probe>>

(* GET /allocations *)

\* Mutant: the query is not filtered by the caller's email.
GetAllocation_Unfiltered(p) ==
    /\ req[p].pc = "get_allocation"
    /\ LET docs == get_documents(db, "allocation", EmptyMap, 1)
           sectors == IF Len(docs) = 0 THEN EmptyMap ELSE docs[1]["sectors"]
       IN  req' = [req EXCEPT ![p].pc = "done",
                              ![p].resp = Response([sectors |-> sectors]),
                              ![p].snap = Len(Find(db, "allocation",
                                  [user_email |-> req[p].user.email]))]
    /\ UNCHANGED <<db, now, env, held, orders, stats, probe>>

GetAllocation(p) ==
    /\ req[p].pc = "get_allocation"
    /\ LET filter == [user_email |-> req[p].user.email]
           docs == get_documents(db, "allocation", filter, 1)
           sectors == IF Len(docs) = 0 THEN EmptyMap
                      ELSE IF "sectors" \in DOMAIN docs[1] THEN docs[1]["sectors"]
                      ELSE EmptyMap
       IN  req' = [req EXCEPT ![p].pc = "done",
                              ![p].resp = Response([sectors |-> sectors]),
                              ![p].snap = Len(Find(db, "allocation", filter))]
    /\ UNCHANGED <<db, now, env, held, orders, stats, probe>>

(* POST /allocations *)

SaveAllocationQuery(p) ==
    /\ req[p].pc = "save_allocation"
    \* existing = get_documents(...): both branches on it insert alike
    /\ req' = [req EXCEPT ![p].pc = "save_allocation_insert"]
    /\ UNCHANGED <<db, now, env, held, orders, stats, probe>>

\* Mutant: a true upsert, the user's record is replaced when there is one.
SaveAllocationInsert_Upsert(p) ==
    /\ req[p].pc = "save_allocation_insert"
    /\ LET doc == [user_email |-> req[p].user.email,
                   sectors |-> req[p].body.sectors]
           mine(r) == r["user_email"] = req[p].user.email
       IN  IF \E i \in DOMAIN db["allocation"] : mine(db["allocation"][i])
               THEN db' = [db EXCEPT !["allocation"] =
                              [i \in DOMAIN @ |->
                                  IF mine(@[i])
                                      THEN [@[i] EXCEPT !["sectors"] = doc.sectors,
                                                         !["updated_at"] = now]
                                      ELSE @[i]]]
               ELSE db' = create_document(db, "allocation", doc, now)
    /\ Finish(p, Response([message |-> "Allocation saved"]))
    /\ stats' = [stats EXCEPT !.saved[req[p].user.email] = @ + 1]
    /\ UNCHANGED <<now, env, held, orders, probe>>

SaveAllocationInsert(p) ==
    /\ req[p].pc = "save_allocation_insert"
    /\ LET doc == [user_email |-> req[p].user.email,
                   sectors |-> req[p].body.sectors]
       IN  db' = create_document(db, "allocation", doc, now)
    /\ Finish(p, Response([message |-> "Allocation saved"]))
    /\ stats' = [stats EXCEPT !.saved[req[p].user.email] = @ + 1]
    /\ UNCHANGED <<now, env, held, orders, probe>>

(* GET /receipts *)

Get(doc, key, default) == IF key \in DOMAIN doc THEN doc[key] ELSE default

NullId == "null"

ReceiptOf(r) ==
    [id |-> ToString(r["_id"]), user_email |-> r["user_email"],
     amount |-> r["amount"], currency |-> Get(r, "currency", "INR"),
     regime |-> Get(r, "regime", "new"),
     allocation |-> Get(r, "allocation", EmptyMap),
     payment_method |-> Get(r, "payment_method", "demo"),
     reference |-> Get(r, "reference", NullId)]

ListReceipts(p) ==
    /\ req[p].pc = "list_receipts"
    /\ LET filter == [user_email |-> req[p].user.email]
           docs == get_documents(db, "receipt", filter, ReceiptsLimit)
           items == [i \in 1 .. Len(docs) |-> ReceiptOf(docs[i])]
       IN  req' = [req EXCEPT ![p].pc = "done",
                              ![p].resp = Response([items |-> items]),
                              ![p].snap = Len(Find(db, "receipt", filter))]
    /\ UNCHANGED <<db, now, env, held, orders, stats, probe>>

(* POST /pay/demo *)

\* Mutant: another prefix.
DemoReference_Pay(t) == "PAY-" \o ToString(t)

DemoReference(t) == "DEMO-" \o ToString(t)

\* Mutant: the receipt is filed under the email the request body names.
PayDemo_BodyEmail(p) ==
    /\ req[p].pc = "pay_demo"
    /\ LET rec == [user_email |-> Get(req[p].body, "user_email",
                                      req[p].user.email),
                   amount |-> req[p].body.amount, currency |-> "INR",
                   regime |-> req[p].body.regime,
                   allocation |-> req[p].body.allocation,
                   payment_method |-> "demo", reference |-> DemoReference(now)]
       IN  /\ db' = create_document(db, "receipt", rec, now)
           /\ Finish(p, Response([id |-> NullId] @@ rec))
    /\ stats' = [stats EXCEPT !.paid = @ + 1]
    /\ UNCHANGED <<now, env, held, orders, probe>>

PayDemo(p) ==
    /\ req[p].pc = "pay_demo"
    /\ LET rec == [user_email |-> req[p].user.email,
                   amount |-> req[p].body.amount, currency |-> "INR",
                   regime |-> req[p].body.regime,
                   allocation |-> req[p].body.allocation,
                   payment_method |-> "demo", reference |-> DemoReference(now)]
       IN  /\ db' = create_document(db, "receipt", rec, now)
           \* Receipt(**rec): rec has no id
           /\ Finish(p, Response([id |-> NullId] @@ rec))
    /\ stats' = [stats EXCEPT !.paid = @ + 1]
    /\ UNCHANGED <<now, env, held, orders, probe>>

(* POST /pay/razorpay/order *)

OrderRequest(body, t) ==
    [amount |-> body.amount, currency |-> body.currency,
     receipt |-> IF body.receipt = "" THEN "rcpt_" \o ToString(t)
                 ELSE body.receipt,
     notes |-> body.notes]

\* What the gateway answers to an order it accepts.
GatewayOrder(request, n) ==
    [id |-> "order_" \o ToString(n), amount |-> request.amount,
     currency |-> request.currency, status |-> "created"]

CreateRazorpayOrder(p) ==
    /\ req[p].pc = "create_razorpay_order"
    /\ IF KeysMissing(env)
           THEN /\ Finish(p, HTTPException(400, "Razorpay keys not configured"))
                /\ orders' = orders
       ELSE IF ~env.razorpay_installed
           THEN /\ Finish(p, HTTPException(500, "Razorpay import failed"))
                /\ orders' = orders
       ELSE /\ orders' = Append(orders, OrderRequest(req[p].body, now))
            /\ \E accepted \in BOOLEAN :
                  IF accepted
                      THEN Finish(p, Response(
                               GatewayOrder(OrderRequest(req[p].body, now),
                                            Len(orders) + 1)))
                      ELSE Finish(p, ServerError)
    /\ UNCHANGED <<db, now, env, held, stats, probe>>

(* The clock moves on to a later instant. *)

Tick ==
    /\ \E t \in Instants : t > now /\ now' = t
    /\ UNCHANGED <<db, env, req, held, orders, stats, probe>>

\* The clock moves on to a later instant, no later than latest.
Advance(latest) ==
    /\ \E t \in Instants : t > now /\ t <= latest /\ now' = t
    /\ UNCHANGED <<db, env, req, held, orders, stats, probe>>

\* The clock moves on while no request is being served.
AdvanceBetween(latest) ==
    /\ \A q \in Procs : Resting(q)
    /\ Advance(latest)

----------------------------------------------------------------------------
(* Direct use of the token service (SpecToken): issue a token with a given *)
(* lifetime, or with the default one, and verify it or an altered copy.    *)

AlterPayload(token, e) == [token EXCEPT !.payload = [@ EXCEPT !["sub"] = e]]
AlterSignature(token) == [token EXCEPT !.mac = [@ EXCEPT !.key = "altered"]]
AlterPadding(token) == [token EXCEPT !.pad = 1]
AlterAlgorithm(token) == [token EXCEPT !.alg = "none"]
ForeignToken(e, exp) == JwtEncode([sub |-> e, exp |-> exp], "foreign-key", JWT_ALG)
Garbage ==
    [wellformed |-> FALSE, alg |-> "", payload |-> EmptyMap,
     mac |-> Hmac("", "", EmptyMap), pad |-> 0]

OtherEmails(token) == { e \in Emails : e # token.payload["sub"] }

\* The copies of a token that differ from it in some byte of the token text.
AlteredCopies(token) ==
    { AlterPayload(token, e) : e \in OtherEmails(token) }
        \cup {AlterSignature(token), AlterPadding(token), AlterAlgorithm(token)}

Lifetimes == {0, 1}

TokenIssue ==
    /\ \E e \in Emails, given \in BOOLEAN, m \in Lifetimes :
          probe' = [token |-> IF given THEN create_token([sub |-> e], m, now)
                              ELSE create_token([sub |-> e],
                                                DefaultExpiresMinutes, now),
                    given |-> given, minutes |-> IF given THEN m ELSE 0,
                    issued_at |-> now, presented |-> None, checked_at |-> 0,
                    result |-> None]
    /\ UNCHANGED <<db, now, env, req, held, orders, stats>>

TokenVerify ==
    /\ probe # None
    /\ \E t \in {probe.token, Garbage,
                 ForeignToken(probe.token.payload["sub"],
                              probe.token.payload["exp"])}
                    \cup AlteredCopies(probe.token) :
          probe' = [probe EXCEPT !.presented = t, !.checked_at = now,
                                 !.result = decode_token(t, now, env.exp_inclusive)]
    /\ UNCHANGED <<db, now, env, req, held, orders, stats>>

----------------------------------------------------------------------------
(* Clients: the requests the model sends. *)

Bearer(token) == HeaderOf(<<Lit("Bearer"), Tok(token)>>, FALSE)

Holders == { e \in Emails : held[e] # None }

HeaderKinds ==
    {"none", "empty", "basic", "bearer", "lower", "altered", "foreign",
     "garbage", "bare", "nosub", "minted"}

Headers(kinds) ==
    (IF "none" \in kinds THEN {None} ELSE {})
    \cup (IF "empty" \in kinds THEN {HeaderOf(<<>>, FALSE)} ELSE {})
    \cup (IF "bare" \in kinds THEN {HeaderOf(<<Lit("Bearer")>>, TRUE)} ELSE {})
    \cup (IF "garbage" \in kinds THEN {Bearer(Garbage)} ELSE {})
    \cup (IF "foreign" \in kinds
            THEN { Bearer(ForeignToken(e, now + 1)) : e \in Emails } ELSE {})
    \cup (IF "bearer" \in kinds THEN { Bearer(held[e]) : e \in Holders } ELSE {})
    \cup (IF "lower" \in kinds
            THEN { HeaderOf(<<Lit("bearer"), Tok(held[e])>>, FALSE) : e \in Holders }
            ELSE {})
    \cup (IF "basic" \in kinds
            THEN { HeaderOf(<<Lit("Basic"), Tok(held[e])>>, FALSE) : e \in Holders }
            ELSE {})
    \cup (IF "altered" \in kinds
            THEN UNION { { Bearer(t) : t \in AlteredCopies(held[e]) } : e \in Holders }
            ELSE {})
    \* tokens signed with the service's key that login did not issue
    \cup (IF "nosub" \in kinds
            THEN {Bearer(create_token(EmptyMap, DefaultExpiresMinutes, now)),
                  Bearer(create_token([sub |-> ""], DefaultExpiresMinutes, now))}
            ELSE {})
    \cup (IF "minted" \in kinds
            THEN { Bearer(create_token([sub |-> e], DefaultExpiresMinutes, now)) :
                     e \in Emails }
            ELSE {})

ClientRegister(procs, emails, passwords, sequential) ==
    /\ Len(db["user"]) + InFlight("register") < MaxUsers
    /\ \E p \in procs, e \in emails, pw \in passwords :
          Submit(p, "register", None,
                 [email |-> e, password |-> pw, name |-> NameOf(e),
                  pan |-> PanOf(e)], sequential)

ClientLogin(procs, emails, passwords, sequential) ==
    \E p \in procs, e \in emails, pw \in passwords :
        Submit(p, "login", None, [email |-> e, password |-> pw], sequential)

ClientTest(procs, cap, sequential) ==
    /\ Len(db["ping"]) + InFlight("test") < cap
    /\ \E p \in procs : Submit(p, "test", None, None, sequential)

ClientMe(procs, kinds, sequential) ==
    \E p \in procs, h \in Headers(kinds) : Submit(p, "me", h, None, sequential)

ClientGetAllocation(procs, kinds, sequential) ==
    \E p \in procs, h \in Headers(kinds) :
        Submit(p, "get_allocation", h, None, sequential)

ClientSaveAllocation(procs, kinds, maps, cap, sequential) ==
    /\ Len(db["allocation"]) + InFlight("save_allocation") < cap
    /\ \E p \in procs, h \in Headers(kinds), m \in maps :
          Submit(p, "save_allocation", h, [sectors |-> m], sequential)

\* Requests whose JSON body also names a user: the request schemas have no
\* such field and drop it.
ClientSaveAllocationAs(procs, kinds, maps, emails, cap, sequential) ==
    /\ Len(db["allocation"]) + InFlight("save_allocation") < cap
    /\ \E p \in procs, h \in Headers(kinds), m \in maps, e \in emails :
          Submit(p, "save_allocation", h, [sectors |-> m, user_email |-> e],
                 sequential)

ClientPayDemoAs(procs, kinds, amounts, emails, cap, sequential) ==
    /\ Len(db["receipt"]) + InFlight("pay_demo") < cap
    /\ \E p \in procs, h \in Headers(kinds), a \in amounts, e \in emails :
          Submit(p, "pay_demo", h,
                 [amount |-> a, regime |-> "new", allocation |-> HealthOnly,
                  user_email |-> e], sequential)

ClientListReceipts(procs, kinds, sequential) ==
    \E p \in procs, h \in Headers(kinds) :
        Submit(p, "list_receipts", h, None, sequential)

ClientPayDemo(procs, kinds, amounts, cap, sequential) ==
    /\ Len(db["receipt"]) + InFlight("pay_demo") < cap
    /\ \E p \in procs, h \in Headers(kinds), a \in amounts :
          Submit(p, "pay_demo", h,
                 [amount |-> a, regime |-> "new", allocation |-> HealthOnly],
                 sequential)

ClientCreateOrder(procs, kinds, sequential) ==
    /\ Len(orders) + InFlight("create_razorpay_order") < MaxOrders
    /\ \E p \in procs, h \in Headers(kinds), label \in {"", "r-1"} :
          Submit(p, "create_razorpay_order", h,
                 [amount |-> 50000, currency |-> "INR", receipt |-> label,
                  notes |-> EmptyMap], sequential)

----------------------------------------------------------------------------
(* Specifications. *)

InitWith(environments) ==
    /\ db = [c \in Collections |-> <<>>]
    /\ now = 0
    /\ env \in environments
    /\ req = [p \in Procs |-> Idle]
    /\ held = [e \in Emails |-> None]
    /\ orders = <<>>
    /\ stats = [registered |-> [e \in Emails |-> 0], credentials |-> {},
                paid |-> 0, saved |-> [e \in Emails |-> 0]]
    /\ probe = None

DefaultEnvironment ==
    [vars |-> [n \in {} |-> ""], razorpay_installed |-> TRUE,
     exp_inclusive |-> TRUE]

\* Every operation, one request at a time.
Init == InitWith({DefaultEnvironment})

GateKinds == {"none", "bearer", "altered", "foreign"}

Next ==
    \/ ClientRegister({1}, Emails, {Short1}, TRUE)
    \/ ClientLogin({1}, Emails, {Short1}, TRUE)
    \/ ClientMe({1}, GateKinds, TRUE)
    \/ ClientGetAllocation({1}, GateKinds, TRUE)
    \/ ClientSaveAllocation({1}, GateKinds, {HealthOnly}, MaxWrites, TRUE)
    \/ ClientListReceipts({1}, GateKinds, TRUE)
    \/ ClientPayDemo({1}, GateKinds, {500}, MaxWrites, TRUE)
    \/ ClientCreateOrder({1}, GateKinds, TRUE)
    \/ \E p \in Procs : RegisterCheck(p)
    \/ \E p \in Procs : RegisterInsert(p)
    \/ \E p \in Procs : Login(p)
    \/ \E p \in Procs : Authenticate(p)
    \/ \E p \in Procs : Me(p)
    \/ \E p \in Procs : GetAllocation(p)
    \/ \E p \in Procs : SaveAllocationQuery(p)
    \/ \E p \in Procs : SaveAllocationInsert(p)
    \/ \E p \in Procs : ListReceipts(p)
    \/ \E p \in Procs : PayDemo(p)
    \/ \E p \in Procs : CreateRazorpayOrder(p)

Spec == Init /\ [][Next]_vars

\* Registration and login, one request at a time.
NextSeq ==
    \/ ClientRegister({1}, Emails, {Short1, Short2, LongX, LongY}, TRUE)
    \/ ClientLogin({1}, Emails, {Short1, Short2, LongX, LongY}, TRUE)
    \/ \E p \in Procs : RegisterCheck(p)
    \/ \E p \in Procs : RegisterInsert(p)
    \/ \E p \in Procs : Login(p)

SpecSeq == Init /\ [][NextSeq]_vars

\* Registration and login, requests interleaving at their awaits.
NextRace ==
    \/ ClientRegister(Procs, Emails, {Short1}, FALSE)
    \/ ClientLogin(Procs, Emails, {Short1}, FALSE)
    \/ \E p \in Procs : RegisterCheck(p)
    \/ \E p \in Procs : RegisterInsert(p)
    \/ \E p \in Procs : Login(p)

SpecRace == Init /\ [][NextRace]_vars

\* Sessions over time: login, then /me as the clock moves, under both expiry tests.
InitSession ==
    InitWith({ e \in Environments : e.vars = DefaultEnvironment.vars
                                     /\ e.razorpay_installed })

NextSession ==
    \/ ClientRegister({1}, Emails, {Short1}, TRUE)
    \/ ClientLogin({1}, Emails, {Short1}, TRUE)
    \/ ClientMe({1}, {"bearer"}, TRUE)
    \/ \E p \in Procs : RegisterCheck(p)
    \/ \E p \in Procs : RegisterInsert(p)
    \/ \E p \in Procs : Login(p)
    \/ \E p \in Procs : Authenticate(p)
    \/ \E p \in Procs : Me(p)
    \/ Tick

SpecSession == InitSession /\ [][NextSession]_vars

\* Allocations: accounts are set up one request at a time; the saves
\* interleave with each other and with the reads at their awaits.
NextAlloc ==
    \/ ClientRegister({1}, Emails, {Short1}, TRUE)
    \/ ClientLogin({1}, Emails, {Short1}, TRUE)
    \/ ClientGetAllocation({1}, {"bearer"}, FALSE)
    \/ ClientSaveAllocation(Procs, {"bearer"}, {HealthOnly, Mixed},
                            MaxAllocations, FALSE)
    \/ \E p \in Procs : RegisterCheck(p)
    \/ \E p \in Procs : RegisterInsert(p)
    \/ \E p \in Procs : Login(p)
    \/ \E p \in Procs : Authenticate(p)
    \/ \E p \in Procs : GetAllocation(p)
    \/ \E p \in Procs : SaveAllocationQuery(p)
    \/ \E p \in Procs : SaveAllocationInsert(p)

SpecAlloc == Init /\ [][NextAlloc]_vars

\* One user paying and listing, up to MaxBulk receipts.
NextPay ==
    \/ ClientRegister({1}, {"a@x.in"}, {Short1}, TRUE)
    \/ ClientLogin({1}, {"a@x.in"}, {Short1}, TRUE)
    \/ ClientListReceipts({1}, {"bearer"}, TRUE)
    \/ ClientPayDemo({1}, {"bearer"}, {500}, MaxBulk, TRUE)
    \/ \E p \in Procs : RegisterCheck(p)
    \/ \E p \in Procs : RegisterInsert(p)
    \/ \E p \in Procs : Login(p)
    \/ \E p \in Procs : Authenticate(p)
    \/ \E p \in Procs : ListReceipts(p)
    \/ \E p \in Procs : PayDemo(p)

SpecPay == Init /\ [][NextPay]_vars

\* Gateway orders under every environment.
InitOrder == InitWith({ e \in Environments : e.exp_inclusive })

NextOrder ==
    \/ ClientRegister({1}, {"a@x.in"}, {Short1}, TRUE)
    \/ ClientLogin({1}, {"a@x.in"}, {Short1}, TRUE)
    \/ ClientCreateOrder({1}, {"none", "bearer"}, TRUE)
    \/ \E p \in Procs : RegisterCheck(p)
    \/ \E p \in Procs : RegisterInsert(p)
    \/ \E p \in Procs : Login(p)
    \/ \E p \in Procs : Authenticate(p)
    \/ \E p \in Procs : CreateRazorpayOrder(p)

SpecOrder == InitOrder /\ [][NextOrder]_vars

\* The token service alone, as the clock moves, under both expiry tests.
NextToken ==
    \/ TokenIssue
    \/ TokenVerify
    \/ Tick

SpecToken == InitSession /\ [][NextToken]_vars

\* Every operation that writes to the store, for one user: the requests
\* interleave at their awaits, the clock moves by a second between requests.
NextStore ==
    \/ ClientRegister({1}, {"a@x.in"}, {Short1}, TRUE)
    \/ ClientLogin({1}, {"a@x.in"}, {Short1}, TRUE)
    \/ ClientTest({1}, MaxAllocations, FALSE)
    \/ ClientSaveAllocation(Procs, {"bearer"}, {HealthOnly}, MaxWrites, FALSE)
    \/ ClientPayDemo(Procs, {"bearer"}, {500}, MaxWrites, FALSE)
    \/ \E p \in Procs : TestInsert(p)
    \/ \E p \in Procs : TestQuery(p)
    \/ \E p \in Procs : RegisterCheck(p)
    \/ \E p \in Procs : RegisterInsert(p)
    \/ \E p \in Procs : Login(p)
    \/ \E p \in Procs : Authenticate(p)
    \/ \E p \in Procs : SaveAllocationQuery(p)
    \/ \E p \in Procs : SaveAllocationInsert(p)
    \/ \E p \in Procs : PayDemo(p)
    \/ AdvanceBetween(1)

SpecStore == Init /\ [][NextStore]_vars

\* Two users reading and writing their allocations and receipts: the reads
\* come in on the first task, the payments on the last, the saves on any, and
\* all interleave at their awaits; the bodies of the writes name a user.
NextShare ==
    \/ ClientRegister({1}, Emails, {Short1}, TRUE)
    \/ ClientLogin({1}, Emails, {Short1}, TRUE)
    \/ ClientGetAllocation({1}, {"bearer"}, FALSE)
    \/ ClientSaveAllocationAs(Procs, {"bearer"}, {HealthOnly}, {"b@x.in"},
                              MaxWrites, FALSE)
    \/ ClientListReceipts({1}, {"bearer"}, FALSE)
    \/ ClientPayDemoAs({MaxTasks}, {"bearer"}, {500}, {"b@x.in"}, MaxWrites,
                       FALSE)
    \/ \E p \in Procs : RegisterCheck(p)
    \/ \E p \in Procs : RegisterInsert(p)
    \/ \E p \in Procs : Login(p)
    \/ \E p \in Procs : Authenticate(p)
    \/ \E p \in Procs : GetAllocation(p)
    \/ \E p \in Procs : SaveAllocationQuery(p)
    \/ \E p \in Procs : SaveAllocationInsert(p)
    \/ \E p \in Procs : ListReceipts(p)
    \/ \E p \in Procs : PayDemo(p)

SpecShare == Init /\ [][NextShare]_vars

\* The life of a session: one user, every operation with the token login
\* gave, one request at a time, as the clock moves, under both expiry tests.
NextLife ==
    \/ ClientRegister({1}, {"a@x.in"}, {Short1}, TRUE)
    \/ ClientLogin({1}, {"a@x.in"}, {Short1}, TRUE)
    \/ ClientTest({1}, MaxWrites, TRUE)
    \/ ClientMe({1}, {"bearer"}, TRUE)
    \/ ClientGetAllocation({1}, {"bearer"}, TRUE)
    \/ ClientSaveAllocation({1}, {"bearer"}, {HealthOnly}, MaxWrites, TRUE)
    \/ ClientListReceipts({1}, {"bearer"}, TRUE)
    \/ ClientPayDemo({1}, {"bearer"}, {500}, MaxWrites, TRUE)
    \/ ClientCreateOrder({1}, {"bearer"}, TRUE)
    \/ \E p \in Procs : TestInsert(p)
    \/ \E p \in Procs : TestQuery(p)
    \/ \E p \in Procs : RegisterCheck(p)
    \/ \E p \in Procs : RegisterInsert(p)
    \/ \E p \in Procs : Login(p)
    \/ \E p \in Procs : Authenticate(p)
    \/ \E p \in Procs : Me(p)
    \/ \E p \in Procs : GetAllocation(p)
    \/ \E p \in Procs : SaveAllocationQuery(p)
    \/ \E p \in Procs : SaveAllocationInsert(p)
    \/ \E p \in Procs : ListReceipts(p)
    \/ \E p \in Procs : PayDemo(p)
    \/ \E p \in Procs : CreateRazorpayOrder(p)
    \/ Tick

SpecLife == InitSession /\ [][NextLife]_vars

\* Logins with right and wrong passwords, interleaving at their awaits.
NextLogin ==
    \/ ClientRegister({1}, Emails, {Short1}, TRUE)
    \/ ClientLogin(Procs, Emails, {Short1, Short2}, FALSE)
    \/ \E p \in Procs : RegisterCheck(p)
    \/ \E p \in Procs : RegisterInsert(p)
    \/ \E p \in Procs : Login(p)

SpecLogin == Init /\ [][NextLogin]_vars

\* The authentication gate under every kind of header, as the clock moves.
NextGate ==
    \/ ClientRegister({1}, Emails, {Short1}, TRUE)
    \/ ClientLogin({1}, Emails, {Short1}, TRUE)
    \/ ClientMe({1}, HeaderKinds, TRUE)
    \/ \E p \in Procs : RegisterCheck(p)
    \/ \E p \in Procs : RegisterInsert(p)
    \/ \E p \in Procs : Login(p)
    \/ \E p \in Procs : Authenticate(p)
    \/ \E p \in Procs : Me(p)
    \/ Tick

SpecGate == Init /\ [][NextGate]_vars

\* Login against user records that register did not write (the store is a
\* shared database; login reads password_hash with a default of ""): the
\* record has no password_hash, an empty one, or a malformed one.
StoredUsers ==
    LET base == [_id |-> 1, created_at |-> 0, updated_at |-> 0,
                 email |-> "a@x.in", name |-> NameOf("a@x.in"),
                 pan |-> PanOf("a@x.in")]
    IN  {base} \cup { base @@ [password_hash |-> h] :
                         h \in {EmptyHash, MalformedHash} }

InitStored ==
    /\ db \in { [c \in Collections |-> IF c = "user" THEN <<u>> ELSE <<>>] :
                  u \in StoredUsers }
    /\ now = 0
    /\ env = DefaultEnvironment
    /\ req = [p \in Procs |-> Idle]
    /\ held = [e \in Emails |-> None]
    /\ orders = <<>>
    /\ stats = [registered |-> [e \in Emails |-> 0], credentials |-> {},
                paid |-> 0, saved |-> [e \in Emails |-> 0]]
    /\ probe = None

NextStored ==
    \/ ClientRegister(Procs, Emails, {Short1, Short2}, FALSE)
    \/ ClientLogin(Procs, Emails, {Short1, Short2}, FALSE)
    \/ \E p \in Procs : RegisterCheck(p)
    \/ \E p \in Procs : RegisterInsert(p)
    \/ \E p \in Procs : Login(p)

SpecStored == InitStored /\ [][NextStored]_vars

----------------------------------------------------------------------------
(* Properties. *)

Done(p, op) == req[p].op = op /\ req[p].pc = "done"

UsersWith(e) == Find(db, "user", [email |-> e])

\* C1: with register requests served one after another, a register of an unused
\* email succeeds and inserts exactly one user record, every later register of
\* that email fails with 400 and inserts nothing: no two user records share an
\* email.
C1_RegisterOnce ==
    /\ \A e \in Emails :
          /\ Len(UsersWith(e)) = stats.registered[e]
          /\ Len(UsersWith(e)) <= 1
    /\ \A p \in Procs :
          Done(p, "register") =>
              /\ req[p].resp.status \in {200, 400}
              /\ Len(UsersWith(req[p].body.email)) = 1
              /\ req[p].resp.status = 400 =>
                    req[p].resp.body.detail = "Email already registered"

C1_Witness ==
    \E p \in Procs :
        /\ Done(p, "register")
        /\ req[p].resp.status = 400
        /\ Len(UsersWith(req[p].body.email)) = 1
        /\ stats.registered[req[p].body.email] = 1

\* C2: a register request that has passed the existence check succeeds and
\* inserts a user record whatever was inserted since the check, so two
\* concurrent registers of one unused email both succeed and leave two user
\* records with that email.
C2_RaceInsertsTwice ==
    [][\A p \in Procs :
          (req[p].pc = "register_insert" /\ req'[p].pc = "done") =>
              /\ req'[p].resp.status = 200
              /\ Len(Find(db', "user", [email |-> req[p].body.email]))
                    = Len(UsersWith(req[p].body.email)) + 1]_vars

C2_Witness ==
    \E p, q \in Procs :
        /\ p # q
        /\ Done(p, "register") /\ Done(q, "register")
        /\ req[p].body.email = req[q].body.email
        /\ req[p].resp.status = 200 /\ req[q].resp.status = 200
        /\ Len(UsersWith(req[p].body.email)) = 2

\* C3: login with a registered email and its password succeeds with a token
\* that verifies and names that email; login with that email and any other
\* password fails with 401 and no token.
C3_LoginDecides ==
    \A p \in Procs :
        (Done(p, "login") /\ stats.registered[req[p].body.email] > 0) =>
            IF <<req[p].body.email, req[p].body.password>> \in stats.credentials
                THEN /\ req[p].resp.status = 200
                     /\ LET d == decode_token(req[p].resp.body.access_token, now,
                                              env.exp_inclusive)
                        IN  d.ok /\ d.payload["sub"] = req[p].body.email
                ELSE /\ req[p].resp.status = 401
                     /\ req[p].resp.body = [detail |-> "Invalid credentials"]

\* The tokens login can have issued.
IssuedTokens ==
    { create_token([sub |-> e], DefaultExpiresMinutes, t) :
        e \in Emails, t \in Instants }

\* C4: a token login issued for an email resolves, before its expiry, to the user
\* with that email, and after its expiry fails with 401.
C4_TokenResolvesUntilExpiry ==
    \A p \in Procs :
        (Done(p, "me") /\ req[p].hdr \in { Bearer(t) : t \in IssuedTokens }) =>
            LET token == req[p].hdr.words[2].tok
            IN  /\ req[p].at < token.payload["exp"] =>
                      /\ req[p].resp.status = 200
                      /\ req[p].resp.body.email = token.payload["sub"]
                /\ req[p].at > token.payload["exp"] =>
                      /\ req[p].resp.status = 401
                      /\ req[p].user = None

C4_Witness ==
    \E p \in Procs :
        /\ Done(p, "me")
        /\ req[p].hdr \in { Bearer(t) : t \in IssuedTokens }
        /\ req[p].at > req[p].hdr.words[2].tok.payload["exp"]
        /\ req[p].resp = HTTPException(401, "Token expired")

\* A well-formed token signed by another key.
ForeignSigned(h) ==
    /\ h # None
    /\ Len(h.words) = 2
    /\ h.words[2].tok # None
    /\ h.words[2].tok.wellformed
    /\ h.words[2].tok.mac.key # JWT_SECRET
    /\ h.words[2].tok = JwtEncode(h.words[2].tok.payload,
                                  h.words[2].tok.mac.key, JWT_ALG)

\* An issued token with some byte of its text altered.
AlteredAnyByte(h) ==
    h \in { Bearer(t) : t \in UNION { AlteredCopies(g) : g \in IssuedTokens } }

\* An issued token with its algorithm, payload or signature bytes altered.
AlteredContent(h) ==
    h \in { Bearer(t) : t \in UNION { AlteredCopies(g) \ {AlterPadding(g)} :
                                        g \in IssuedTokens } }

Refused(p) == req[p].resp.status = 401 /\ req[p].user = None

StepOf(p) == ~Resting(p) /\ req'[p] # req[p]

AllocationsOf(p) == Find(db, "allocation", [user_email |-> req[p].user.email])

\* C6: get_allocation of an authenticated user never fails; it returns the empty
\* map when the user has no allocation record, the saved map when the user has
\* saved once, and one of the saved maps when the user has saved more often.
\* Every save stores the map it was given under the caller's email.
C6_GetReturnsSavedMap ==
    /\ \A p \in Procs :
          (Done(p, "get_allocation") /\ req[p].user # None) =>
              /\ req[p].resp.status = 200
              /\ req[p].snap <= Len(AllocationsOf(p))
              /\ req[p].snap = 0 => req[p].resp.body.sectors = EmptyMap
              /\ req[p].snap = 1 =>
                    req[p].resp.body.sectors = AllocationsOf(p)[1]["sectors"]
              /\ req[p].snap >= 2 =>
                    \E i \in 1 .. req[p].snap :
                        req[p].resp.body.sectors = AllocationsOf(p)[i]["sectors"]
    /\ \A p \in Procs :
          (Done(p, "save_allocation") /\ req[p].user # None) =>
              /\ req[p].resp.status = 200
              /\ \E i \in 1 .. Len(AllocationsOf(p)) :
                    AllocationsOf(p)[i]["sectors"] = req[p].body.sectors

C6_Witness ==
    \E p \in Procs :
        /\ Done(p, "get_allocation")
        /\ req[p].user # None
        /\ req[p].snap = 2
        /\ AllocationsOf(p)[1]["sectors"] # AllocationsOf(p)[2]["sectors"]
        /\ req[p].resp.body.sectors \in {HealthOnly, Mixed}

\* C7: get_allocation returns the map of the allocation record the user inserted
\* most recently.
C7_GetReturnsLatest ==
    \A p \in Procs :
        (Done(p, "get_allocation") /\ req[p].user # None /\ req[p].snap >= 1) =>
            req[p].resp.body.sectors = AllocationsOf(p)[req[p].snap]["sectors"]

Fields(r) == [f \in DOMAIN r \ {"id"} |-> r[f]]

ReceiptsOf(p) == Find(db, "receipt", [user_email |-> req[p].user.email])

Listed(p, i) ==
    \E j \in 1 .. Len(req[p].resp.body.items) :
        req[p].resp.body.items[j] = ReceiptOf(ReceiptsOf(p)[i])

\* pay_demo inserts exactly one receipt record and returns it: the caller's
\* email, the amount, regime and allocation given, method "demo", currency
\* "INR", reference DEMO-<digits>.
PayDemoReturnsReceipt ==
    /\ Len(db["receipt"]) = stats.paid
    /\ \A p \in Procs :
          (Done(p, "pay_demo") /\ req[p].user # None) =>
              /\ req[p].resp.status = 200
              /\ Fields(req[p].resp.body) =
                    [user_email |-> req[p].user.email,
                     amount |-> req[p].body.amount, currency |-> "INR",
                     regime |-> req[p].body.regime,
                     allocation |-> req[p].body.allocation,
                     payment_method |-> "demo",
                     reference |-> req[p].resp.body.reference]
              /\ req[p].resp.body.reference
                    \in { "DEMO-" \o ToString(n) : n \in Instants }
              /\ \E i \in 1 .. Len(ReceiptsOf(p)) :
                    Fields(ReceiptOf(ReceiptsOf(p)[i])) = Fields(req[p].resp.body)

\* C8, as stated: pay_demo inserts exactly one receipt record and returns it
\* with the fields given, and a later list_receipts of that user holds every
\* receipt of the user, however many there are.
C8_Original ==
    /\ PayDemoReturnsReceipt
    /\ \A p \in Procs :
          (Done(p, "list_receipts") /\ req[p].user # None) =>
              /\ req[p].resp.status = 200
              /\ \A i \in 1 .. req[p].snap : Listed(p, i)

\* C8, as amended: pay_demo inserts exactly one receipt record and returns it
\* with the fields given, and a later list_receipts of that user holds every
\* receipt among the user's first ReceiptsLimit receipt records, and no more
\* than ReceiptsLimit receipts.
C8_ReceiptListedWithinLimit ==
    /\ PayDemoReturnsReceipt
    /\ \A p \in Procs :
          (Done(p, "list_receipts") /\ req[p].user # None) =>
              /\ req[p].resp.status = 200
              /\ \A i \in 1 .. Min(req[p].snap, ReceiptsLimit) : Listed(p, i)
              /\ Len(req[p].resp.body.items) = Min(req[p].snap, ReceiptsLimit)

C8_Witness ==
    \E p \in Procs :
        /\ Done(p, "list_receipts")
        /\ req[p].user # None
        /\ req[p].snap = ReceiptsLimit
        /\ stats.paid = ReceiptsLimit
        /\ \A i \in 1 .. ReceiptsLimit : Listed(p, i)

\* A gateway key is unset or empty.
Unconfigured ==
    \E n \in {"RAZORPAY_KEY_ID", "RAZORPAY_KEY_SECRET"} :
        n \notin DOMAIN env.vars \/ env.vars[n] = ""

\* C9: an authenticated create-order request made while a gateway key is unset
\* or empty ends 400 "Razorpay keys not configured"; the gateway is never
\* called and no step of the request writes to the store.
C9_OrderNeedsKeys ==
    /\ [](Unconfigured =>
            /\ orders = <<>>
            /\ \A p \in Procs :
                  (Done(p, "create_razorpay_order") /\ req[p].user # None) =>
                      req[p].resp =
                          HTTPException(400, "Razorpay keys not configured"))
    /\ [][\A p \in Procs :
            (Unconfigured /\ req[p].op = "create_razorpay_order" /\ StepOf(p))
                => (db' = db /\ orders' = orders)]_vars

C9_Witness ==
    \E p \in Procs :
        /\ Done(p, "create_razorpay_order")
        /\ req[p].user # None
        /\ DOMAIN env.vars = {"RAZORPAY_KEY_ID"}
        /\ req[p].resp.status = 400

ProbeLifetime == IF probe.given THEN probe.minutes * 60 ELSE 24 * 60 * 60

ProbeExpiry == probe.token.payload["exp"]

Checked == probe # None /\ probe.presented # None

Invalidated ==
    {Garbage, AlterSignature(probe.token), AlterAlgorithm(probe.token),
     ForeignToken(probe.token.payload["sub"], ProbeExpiry)}
        \cup { AlterPayload(probe.token, e) : e \in OtherEmails(probe.token) }

\* The expiry a token carries is its issue time plus the lifetime given, 24
\* hours when none is given.  A correctly signed token is accepted before its
\* expiry and refused as expired after it; a token that is malformed, altered
\* in content or signed by another key is refused as invalid, never as expired.
TokenExpiryAndInvalid ==
    /\ probe # None => ProbeExpiry = probe.issued_at + ProbeLifetime
    /\ (Checked /\ probe.presented = probe.token) =>
          /\ probe.checked_at < ProbeExpiry =>
                /\ probe.result.ok
                /\ probe.result.payload = probe.token.payload
          /\ probe.checked_at > ProbeExpiry =>
                /\ ~probe.result.ok
                /\ probe.result.raised = HTTPException(401, "Token expired")
    /\ (Checked /\ probe.presented \in Invalidated) =>
          /\ ~probe.result.ok
          /\ probe.result.raised = HTTPException(401, "Invalid token")

\* C10, as stated: the expiry is issue time plus lifetime; a correctly signed
\* token is accepted at every time up to and including its expiry and refused
\* as expired at every later time; any other failure is reported as invalid.
C10_Original ==
    /\ TokenExpiryAndInvalid
    /\ (Checked /\ probe.presented = probe.token
        /\ probe.checked_at = ProbeExpiry) => probe.result.ok

\* C10, as amended: the expiry is issue time plus lifetime; a correctly signed
\* token is accepted at every time before its expiry and refused as expired at
\* every time after it (at the expiry instant the library's release decides);
\* any other failure is reported as invalid, never as expired.
C10_ExpiryDecides ==
    /\ TokenExpiryAndInvalid
    /\ (Checked /\ probe.presented = probe.token
        /\ probe.checked_at = ProbeExpiry) =>
          \/ probe.result.ok
          \/ probe.result.raised = HTTPException(401, "Token expired")

C10_Witness ==
    /\ Checked
    /\ ~probe.given
    /\ probe.presented = probe.token
    /\ probe.checked_at > ProbeExpiry
    /\ probe.result = [ok |-> FALSE,
                       raised |-> HTTPException(401, "Token expired")]

\* C11: verify_password never raises: a login ends 200 or 401, and a login
\* against a user record whose password hash is missing, empty or malformed
\* ends 401 "Invalid credentials".
C11_VerifyNeverRaises ==
    \A p \in Procs :
        Done(p, "login") =>
            /\ req[p].resp.status \in {200, 401}
            /\ (/\ Len(UsersWith(req[p].body.email)) > 0
                /\ PasswordHashOf(UsersWith(req[p].body.email)[1])
                      \in {EmptyHash, MalformedHash}) =>
                  req[p].resp = HTTPException(401, "Invalid credentials")

\* The step of task p in which the authentication gate decides.
GateStep(p) == req[p].pc = "auth" /\ req'[p].pc # "auth"

\* The token a header carries after the bearer marker.
TokenIn(h) == h.words[2].tok

\* The reasons the gate may give for header h at time t over store d when the
\* failure kinds are tested in the order: missing header or marker, expired
\* token, invalid token, no email claim, no user record ({} when none applies).
\* A marker followed by no token counts as a missing or invalid credential.
ReasonsInStatedOrder(d, h, t, inclusive) ==
    IF Falsy(h) \/ ~StartsWithBearer(h) THEN {"Missing token"}
    ELSE IF Len(h.words) < 2 THEN {"Missing token", "Invalid token"}
    ELSE IF TokenIn(h) = None THEN {"Invalid token"}
    ELSE IF /\ TokenIn(h).wellformed
            /\ "exp" \in DOMAIN TokenIn(h).payload
            /\ Expired(TokenIn(h).payload["exp"], t, inclusive)
        THEN {"Token expired"}
    ELSE IF ~JwtDecode(TokenIn(h), JWT_SECRET, {JWT_ALG}, t, inclusive).ok
        THEN {"Invalid token"}
    ELSE IF \/ "sub" \notin DOMAIN TokenIn(h).payload
            \/ TokenIn(h).payload["sub"] = ""
        THEN {"Invalid token payload"}
    ELSE IF Len(Find(d, "user", [email |-> TokenIn(h).payload["sub"]])) = 0
        THEN {"User not found"}
    ELSE {}

\* C12: every failure of the authentication gate is a 401, and its reason is
\* the first that applies in the order: missing header or bearer marker,
\* expired token, invalid token, verified token without an email claim, no
\* user record for the claimed email; when none applies the gate resolves
\* the user.
C12_GateFailuresOrdered ==
    [][\A p \in Procs :
          GateStep(p) =>
              LET reasons == ReasonsInStatedOrder(db, req[p].hdr, now,
                                                  env.exp_inclusive)
              IN  IF reasons = {}
                      THEN req'[p].pc = req[p].op /\ req'[p].user # None
                      ELSE /\ req'[p].pc = "done"
                           /\ req'[p].resp.status = 401
                           /\ req'[p].resp.body.detail \in reasons]_vars

\* Task p has been through the authentication gate.
Gated(p) == req[p].op \in Protected /\ req[p].pc # "auth"

\* A header with the bearer marker followed by white space only.
MarkerOnly(h) == ~Falsy(h) /\ StartsWithBearer(h) /\ Len(h.words) < 2

\* C13: whatever the Authorization header, the gate resolves a user or fails
\* with 401, never otherwise; a header with the bearer marker and no token
\* fails with 401 as a missing or invalid credential.
C13_ResolveUserOr401 ==
    \A p \in Procs :
        Gated(p) =>
            /\ req[p].user # None \/ req[p].resp.status = 401
            /\ MarkerOnly(req[p].hdr) =>
                  /\ req[p].user = None
                  /\ req[p].resp.body.detail \in {"Missing token", "Invalid token"}

\* C14: every save_allocation that succeeds appends exactly one allocation
\* record, the caller's, to the store, whether or not the caller already has
\* one; after k successful saves of a user the store holds exactly k
\* allocation records of that user.
C14_SaveInsertsOne ==
    /\ [](\A e \in Emails :
            Len(Find(db, "allocation", [user_email |-> e])) = stats.saved[e])
    /\ [][\A p \in Procs :
            (req[p].pc = "save_allocation_insert" /\ req'[p].pc = "done") =>
                /\ req'[p].resp = Response([message |-> "Allocation saved"])
                /\ Len(db'["allocation"]) = Len(db["allocation"]) + 1
                /\ SubSeq(db'["allocation"], 1, Len(db["allocation"]))
                      = db["allocation"]
                /\ LET new == db'["allocation"][Len(db'["allocation"])]
                   IN  /\ new["user_email"] = req[p].user.email
                       /\ new["sectors"] = req[p].body.sectors]_vars

C14_Witness ==
    \E p \in Procs :
        /\ Done(p, "save_allocation")
        /\ req[p].resp.status = 200
        /\ stats.saved[req[p].user.email] = 2
        /\ Len(Find(db, "allocation", [user_email |-> req[p].user.email])) = 2

\* C15: the store is append-only: under every interleaving of the operations
\* a step leaves every record of every collection in place with the fields
\* it had (a collection only grows at its end), and every stored record has
\* its last-update time equal to its creation time.
C15_AppendOnly ==
    /\ [](\A c \in Collections : \A i \in DOMAIN db[c] :
            db[c][i]["updated_at"] = db[c][i]["created_at"])
    /\ [][\A c \in Collections :
            /\ Len(db'[c]) >= Len(db[c])
            /\ SubSeq(db'[c], 1, Len(db[c])) = db[c]]_vars

C15_Witness ==
    /\ Len(db["user"]) >= 1
    /\ Len(db["allocation"]) >= 1
    /\ Len(db["receipt"]) >= 1
    /\ Len(db["ping"]) >= 2
    /\ \E c \in Collections : \E i \in DOMAIN db[c] :
          db[c][i]["created_at"] < now

\* C16: a login that fails is answered 401 "Invalid credentials" without a
\* token, alike when its query found no user record for the email and when it
\* found one whose password did not verify; a login for an email without a user
\* record always fails; and no login changes the store.
C16_LoginFailuresAlike ==
    /\ [](\A p \in Procs :
            Done(p, "login") =>
                /\ req[p].snap = 0 => req[p].resp.status # 200
                /\ req[p].resp.status # 200 =>
                      req[p].resp = HTTPException(401, "Invalid credentials"))
    /\ [][\A p \in Procs :
            (req[p].pc = "login_query" /\ req'[p].pc = "done") => db' = db]_vars

C16_Witness ==
    \E p, q \in Procs :
        /\ Done(p, "login") /\ Done(q, "login")
        /\ req[p].snap = 0 /\ req[q].snap = 1
        /\ req[q].resp.status # 200
        /\ req[p].resp = req[q].resp
        /\ req[p].body.password = req[q].body.password

\* The records of a collection filed under another email than task p's user.
OthersIn(c, p) ==
    SelectSeq(db[c], LAMBDA r : r["user_email"] # req[p].user.email)

\* C17: with the requests of different users interleaving, get_allocation
\* returns the empty map or the map of an allocation record filed under the
\* caller's email, every receipt list_receipts returns is a receipt record
\* filed under the caller's email, and the record save_allocation or pay_demo
\* writes is filed under the email of the authenticated caller, whatever
\* email the request body names.
C17_OwnRecordsOnly ==
    /\ [](\A p \in Procs :
            /\ Done(p, "get_allocation") =>
                  \/ req[p].snap = 0 /\ req[p].resp.body.sectors = EmptyMap
                  \/ \E i \in DOMAIN db["allocation"] :
                        /\ db["allocation"][i]["user_email"] = req[p].user.email
                        /\ db["allocation"][i]["sectors"]
                              = req[p].resp.body.sectors
            /\ Done(p, "list_receipts") =>
                  /\ Len(req[p].resp.body.items) = req[p].snap
                  /\ \A i \in DOMAIN req[p].resp.body.items :
                        LET item == req[p].resp.body.items[i]
                        IN  /\ item.user_email = req[p].user.email
                            /\ \E j \in DOMAIN db["receipt"] :
                                  /\ ToString(db["receipt"][j]["_id"]) = item.id
                                  /\ db["receipt"][j]["user_email"]
                                        = req[p].user.email)
    /\ [][\A p \in Procs :
            /\ (req[p].pc = "save_allocation_insert" /\ req'[p].pc = "done") =>
                  db'["allocation"][Len(db'["allocation"])]["user_email"]
                      = req[p].user.email
            /\ (req[p].pc = "pay_demo" /\ req'[p].pc = "done") =>
                  /\ db'["receipt"][Len(db'["receipt"])]["user_email"]
                        = req[p].user.email
                  /\ req'[p].resp.body.user_email = req[p].user.email]_vars

C17_Witness ==
    \E p, q \in Procs :
        /\ Done(p, "get_allocation")
        /\ req[p].snap = 0 /\ req[p].resp.body.sectors = EmptyMap
        /\ Len(OthersIn("allocation", p)) > 0
        /\ Done(q, "pay_demo")
        /\ req[q].body.user_email # req[q].user.email
        /\ req[q].resp.body.user_email = req[q].user.email
        /\ \E i \in DOMAIN db["receipt"] :
              db["receipt"][i]["user_email"] = req[q].user.email

\* The tokens login can have issued for email e by now: login issues
\* create_token({"sub": e}) at a time when a user record for e exists.
IssuedBy(e) ==
    { create_token([sub |-> e], DefaultExpiresMinutes, t) :
        t \in { i \in Instants :
                  /\ i <= now
                  /\ Len(UsersWith(e)) > 0
                  /\ UsersWith(e)[1]["created_at"] <= i } }

\* C18: in every state reached, a token login has issued for email e resolves
\* to a user with email e as long as the clock is before its expiry, and it is
\* never refused for another reason than its expiry.
C18_IssuedTokenStaysValid ==
    \A e \in Emails :
        /\ held[e] # None => held[e] \in IssuedBy(e)
        /\ \A token \in IssuedBy(e) :
              LET r == get_current_user(db, Bearer(token), now,
                                        env.exp_inclusive)
              IN  /\ now < token.payload["exp"] =>
                        r.ok /\ r.user.email = e
                  /\ ~r.ok =>
                        /\ r.raised = HTTPException(401, "Token expired")
                        /\ now >= token.payload["exp"]

C18_Witness ==
    \E e \in Emails, p \in Procs :
        /\ held[e] # None
        /\ held[e].payload["exp"] = DefaultExpiresMinutes * SecondsPerMinute
        /\ now = held[e].payload["exp"] - 1
        /\ Len(db["allocation"]) > 0 /\ Len(db["receipt"]) > 0
        /\ Len(db["ping"]) > 0
        /\ Done(p, "me") /\ req[p].hdr = Bearer(held[e])
        /\ req[p].at = now
        /\ req[p].resp.status = 200 /\ req[p].resp.body.email = e

====
